---- MODULE Spec2Model ----
(***************************************************************************)
(* Model of L3DAS21.  From src/utility_functions.py: the frame-label       *)
(* encoder get_label_task2, the submission-list generator                  *)
(* gen_submission_list_task2, the segmenters segment_waveforms and         *)
(* segment_task2, spectrum_fast, save_model and load_model, and            *)
(* csv_to_matrix_task2.  From src/train_baseline_task1_fasnet.py: the      *)
(* training loop of main with its early stopping and checkpoints.          *)
(* From src/preprocessing.py: preprocessing_task1.                         *)
(*                                                                         *)
(* Conventions.                                                            *)
(*  - Python/numpy arrays are functions over 0..n-1, so that every index   *)
(*    expression of the source is kept as written.  Python lists that only *)
(*    grow by append (X, Y, output) are sequences.                         *)
(*  - Real numbers are exact rationals <<n, d>> in lowest terms (d > 0).   *)
(*    Binary floating-point rounding is not modelled.                      *)
(*  - Times are integer ticks; a frame is FrameLen ticks long, so events   *)
(*    can start and end inside a frame as well as on its borders.          *)
(***************************************************************************)
EXTENDS Integers, Sequences, FiniteSets, TLC

VARIABLES
    \* ---- get_label_task2 (and the decode of its result) ----
    events,       \* rows of the annotation csv, in file order
    j,            \* index of the frame being filled (loop of line 190)
    pos,          \* next entry of the frame's (class, event) iteration
    class_vec,    \* class_vec[j][slot]  : None, 0 or 1
    loc_vec,      \* loc_vec[j][k]       : None or a number
    stacked,      \* the matrix returned (rationals), or None before return
    decoded,      \* gen_submission_list_task2 applied to the split matrix
    lpc,          \* "frames", "stack", "decode", "done", or "idle"
    \* ---- gen_submission_list_task2 on model output ----
    sed_row,      \* the presence scores c of the frame just processed
    doa_row,      \* the locations l of the frame just processed
    sub_i,        \* number of frames consumed (enumerate index i)
    output,       \* the list of rows built so far
    prev_output,  \* history: output before the last frame was processed
    spc,          \* "loop", "done" or "idle"
    \* ---- segment_waveforms ----
    w_predictors, w_target, w_length, w_cuts, w_i, w_X, w_Y, wpc,
    \* ---- segment_task2 ----
    t_predictors, t_target, t_pls, t_tls, t_overlap,
    t_cuts_p, t_cuts_t, t_i, t_X, t_Y, t_err, tpc,
    \* ---- spectrum_fast ----
    seg_stft,            \* the raw transform of the signal
    cut_dc, output_phase, cut_last_timeframe,
    sp_output,           \* the local `output`
    sppc,                \* "abs", "phase", "dc", "last", "done" or "idle"
    \* ---- save_model, load_model and the training loop of main ----
    tr_patience,         \* args.patience
    tr_load,             \* the bundle at args.load_model, None without one
    tr_state,            \* the dict `state`
    tr_model,            \* parameters of `model`: optimizer steps applied
    tr_optimizer,        \* parameters of `optimizer`, counted the same way
    tr_file,             \* what the checkpoint path holds, None if no file
    tr_saves,            \* history: the bundles handed to torch.save
    tr_val_loss,         \* val_loss of the running epoch
    tr_val_hist,         \* val_loss_hist
    tr_err,              \* the exception that ended the run, or "none"
    trpc,                \* position in main, or "idle"
    \* ---- csv_to_matrix_task2 ----
    csv_dur, csv_step, csv_max_overlap,   \* dur, step, max_overlap
    csv_df,              \* rows of the annotation csv, in file order
    csv_index,           \* rows consumed by the loop of line 127
    csv_cl, csv_loc,     \* the arrays cl and loc
    csv_stacked,         \* the matrix returned, None before the return
    csv_err,             \* the exception that ended the call, or "none"
    cpc,                 \* "rows", "done", "error" or "idle"
    \* ---- preprocessing_task1 ----
    prep_num_mics,       \* args.num_mics
    prep_files,          \* the files of the data folders, in listing order
    prep_index,          \* mic-A files consumed by the loop of line 49
    predictors_train, predictors_test, target_train, target_test,
    prep_saved,          \* the lists written at lines 91-102, None before
    prepc                \* "sounds", "done" or "idle"

label_vars == <<events, j, pos, class_vec, loc_vec, stacked, decoded, lpc>>
sub_vars   == <<sed_row, doa_row, sub_i, output, prev_output, spc>>
wave_vars  == <<w_predictors, w_target, w_length, w_cuts, w_i, w_X, w_Y, wpc>>
seg2_vars  == <<t_predictors, t_target, t_pls, t_tls, t_overlap,
                t_cuts_p, t_cuts_t, t_i, t_X, t_Y, t_err, tpc>>
spectrum_vars == <<seg_stft, cut_dc, output_phase, cut_last_timeframe,
                    sp_output, sppc>>
\* the functions modelled in the first four sections, and the others
array_vars == <<label_vars, sub_vars, wave_vars, seg2_vars>>
train_vars == <<tr_patience, tr_load, tr_state, tr_model, tr_optimizer,
                 tr_file, tr_saves, tr_val_loss, tr_val_hist, tr_err, trpc>>
csv_vars == <<csv_dur, csv_step, csv_max_overlap, csv_df, csv_index,
               csv_cl, csv_loc, csv_stacked, csv_err, cpc>>
prep_vars == <<prep_num_mics, prep_files, prep_index, predictors_train,
                predictors_test, target_train, target_test, prep_saved, prepc>>
more_vars == <<spectrum_vars, train_vars, csv_vars, prep_vars>>
vars == <<array_vars, more_vars>>

\* Python's None, and a cell holding the value v: lists that mix None and
\* numbers are lists of cells
None == <<>>
Some(v) == <<v>>

----------------------------------------------------------------------------
(* Exact rational arithmetic standing in for numpy float arithmetic.       *)

RECURSIVE GCD(_, _)
GCD(a, b) == IF b = 0 THEN a ELSE GCD(b, a % b)

Abs(n) == IF n < 0 THEN -n ELSE n

\* the rational n/d in lowest terms, d > 0
Rat(n, d) ==
    LET g == GCD(Abs(n), Abs(d))
        s == IF d < 0 THEN -1 ELSE 1
    IN  <<(s * n) \div g, (s * d) \div g>>

Zero == Rat(0, 1)

RatDiv(a, b) == Rat(a[1] * b[2], a[2] * b[1])
RatMul(a, b) == Rat(a[1] * b[1], a[2] * b[2])

\* rounding that sends a tie up instead of to the even neighbour
np_round_half_up(r) ==
    LET q == r[1] \div r[2]
        rem == r[1] - q * r[2]
    IN  IF 2 * rem >= r[2] THEN q + 1 ELSE q

\* np.round on one element: round half to even
np_round(r) ==
    LET q == r[1] \div r[2]
        rem == r[1] - q * r[2]
    IN  IF 2 * rem > r[2] THEN q + 1
        ELSE IF 2 * rem < r[2] THEN q
        ELSE IF q % 2 = 0 THEN q ELSE q + 1

----------------------------------------------------------------------------
(* Inputs of get_label_task2.                                              *)

\* the list classes_ of known class names, in the order given by the caller
classes_ == <<"dog", "cat">>
num_classes == Len(classes_)

\* slots per class: the literal 3 of lines 172, 173, 209
MaxOverlap == 3

FrameLen == 2      \* frame_len, in ticks
NumFrames == 3     \* num_frames
MaxEvents == 4     \* rows in the annotation file
file_size == NumFrames * FrameLen

\* max_label_distance / max_loc_value
MaxLocValue == 2

\* Start/End pairs an annotation row may carry: the whole file, exactly
\* frame 1, and an interval that starts inside frame 0 and ends inside
\* frame 1.
EventTimes ==
    { <<0, file_size>>, <<FrameLen, 2 * FrameLen>>, <<1, FrameLen + 1>> }

\* Row k of the csv: the coordinates are distinct non-zero numbers that
\* identify the row (the encoder never inspects a coordinate's value).
CsvRow(k, t, c) ==
    [Start |-> t[1], End |-> t[2], Class |-> classes_[c],
     X |-> k, Y |-> -k, Z |-> 2 * k]

CsvFiles ==
    UNION { { [k \in 1..n |-> CsvRow(k, ts[k], cs[k])] :
                ts \in [1..n -> EventTimes], cs \in [1..n -> 1..num_classes] }
            : n \in 0..MaxEvents }


----------------------------------------------------------------------------
(* get_label_task2                                                         *)

\* lines 175-188: the rows of each known class, in file order
class_dict(df) ==
    [c \in 1..num_classes |-> SelectSeq(df, LAMBDA r : r.Class = classes_[c])]

\* the order in which lines 193-195 visit the events: class by class (the
\* dict's insertion order is that of classes_), file order within a class
RECURSIVE data_from(_, _)
data_from(df, c) ==
    IF c > num_classes THEN <<>>
    ELSE [k \in 1..Len(class_dict(df)[c]) |->
             [clas |-> c, data |-> class_dict(df)[c][k]]] \o data_from(df, c + 1)

data_order(df) == data_from(df, 1)

\* line 190-192: the window of frame jj is [i - frame_len, i] with
\* i = np.arange(frame_len, file_size + frame_len, frame_len)[jj]
frame_start(jj) == (jj + 1) * FrameLen - FrameLen
frame_end(jj) == (jj + 1) * FrameLen

\* lines 196-207: the three tests that set is_in
is_in(data, start, end) ==
    \/ data.Start < start /\ data.End > end
    \/ data.End > start /\ data.End < end
    \/ data.Start > start /\ data.Start < end

\* line 209: classes_names.index(clas) * 3 (classes are numbered from 1 here)
ind_class(clas) == (clas - 1) * 3

\* lines 210-215: the presence slot written for one overlapping event
write_class(row, ind) ==
    IF row[ind] = None THEN [row EXCEPT ![ind] = Some(1)]
    ELSE IF row[ind + 1] = None THEN [row EXCEPT ![ind + 1] = Some(1)]
    ELSE [row EXCEPT ![ind + 2] = Some(1)]

\* lines 217-227: the three coordinates stored at offset off of the class
put_xyz(row, ind, off, data) ==
    [row EXCEPT ![off + ind * 3] = Some(data.X),
                ![off + 1 + ind * 3] = Some(data.Y),
                ![off + 2 + ind * 3] = Some(data.Z)]

\* write_loc without its tests: every event is stored in location slot 0
write_loc_slot0(row, ind, data) == put_xyz(row, ind, 0, data)

\* lines 216-227: the location slot written for one overlapping event; note
\* the second test reads loc_vec[j][ind_class+1], as the source does
write_loc(row, ind, data) ==
    IF row[ind * 3] = None THEN put_xyz(row, ind, 0, data)
    ELSE IF row[ind + 1] = None THEN put_xyz(row, ind, 3, data)
    ELSE put_xyz(row, ind, 6, data)

\* lines 228-233: None becomes 0
fill_none(row) ==
    [k \in DOMAIN row |-> IF row[k] = None THEN Some(0) ELSE row[k]]

\* lines 235-244: normalise the locations and stack [class_vec | loc_vec]
stack(cv, lv, max_label_distance) ==
    [f \in DOMAIN cv |->
        [k \in 0..(num_classes * 12 - 1) |->
            IF k < num_classes * 3 THEN Rat(cv[f][k][1], 1)
            ELSE RatDiv(Rat(lv[f][k - num_classes * 3][1], 1),
                        Rat(max_label_distance, 1))]]

----------------------------------------------------------------------------
(* gen_submission_list_task2                                               *)

\* line 93: l.reshape(num_classes, max_overlaps, 3), row-major
reshape3(l, max_overlaps) ==
    [c \in 0..((Cardinality(DOMAIN l) \div (max_overlaps * 3)) - 1) |->
        [e \in 0..(max_overlaps - 1) |->
            [k \in 0..2 |-> l[(c * max_overlaps + e) * 3 + k]]]]

RECURSIVE sum_row(_, _)
sum_row(c, n) == IF n = 0 THEN 0 ELSE c[n - 1] + sum_row(c, n - 1)

\* line 100: int(j / max_overlaps)
predicted_class(jj, max_overlaps) == jj \div max_overlaps
\* line 101: int(j % max_overlaps)
num_event(jj, max_overlaps) == jj % max_overlaps

\* lines 97-103: the rows appended for slots jj.. of frame i
RECURSIVE rows_from(_, _, _, _, _)
rows_from(i, c, l, jj, max_overlaps) ==
    IF jj >= Cardinality(DOMAIN c) THEN <<>>
    ELSE LET pc == predicted_class(jj, max_overlaps)
             ne == num_event(jj, max_overlaps)
             rest == rows_from(i, c, l, jj + 1, max_overlaps)
         IN  IF c[jj] # 0
             THEN <<<<i, pc, l[pc][ne][0], l[pc][ne][1], l[pc][ne][2]>>>> \o rest
             ELSE rest

\* lines 91-103: one iteration of the loop over the frames
frame_rows(i, c0, l0, max_loc_value, max_overlaps) ==
    LET c == [k \in DOMAIN c0 |-> np_round(c0[k])]
        l == reshape3([k \in DOMAIN l0 |-> RatMul(l0[k], Rat(max_loc_value, 1))],
                      max_overlaps)
    IN  IF sum_row(c, Cardinality(DOMAIN c)) = 0 THEN <<>>
        ELSE rows_from(i, c, l, 0, max_overlaps)

\* lines 89-105: the whole function on frames i.. of sed and doa
RECURSIVE gen_submission_from(_, _, _, _, _)
gen_submission_from(sed, doa, i, max_loc_value, max_overlaps) ==
    IF i >= Cardinality(DOMAIN sed) THEN <<>>
    ELSE frame_rows(i, sed[i], doa[i], max_loc_value, max_overlaps)
         \o gen_submission_from(sed, doa, i + 1, max_loc_value, max_overlaps)

gen_submission_list_task2(sed, doa, max_loc_value, max_overlaps) ==
    gen_submission_from(sed, doa, 0, max_loc_value, max_overlaps)

----------------------------------------------------------------------------
(* Each function is exercised by a specification of its own; the variables *)
(* of the other functions then rest in these states.                       *)

LabelIdle ==
    /\ events = <<>> /\ j = 0 /\ pos = 1 /\ class_vec = <<>> /\ loc_vec = <<>>
    /\ stacked = None /\ decoded = <<>> /\ lpc = "idle"

SubIdle ==
    /\ sed_row = <<>> /\ doa_row = <<>> /\ sub_i = 0 /\ output = <<>>
    /\ prev_output = <<>> /\ spc = "idle"

WaveIdle ==
    /\ w_predictors = <<>> /\ w_target = <<>> /\ w_length = 1 /\ w_cuts = <<>>
    /\ w_i = 0 /\ w_X = <<>> /\ w_Y = <<>> /\ wpc = "idle"

Seg2Idle ==
    /\ t_predictors = <<>> /\ t_target = <<>> /\ t_pls = 1 /\ t_tls = 1
    /\ t_overlap = <<0, 1>> /\ t_cuts_p = <<>> /\ t_cuts_t = <<>> /\ t_i = 0
    /\ t_X = <<>> /\ t_Y = <<>> /\ t_err = "none" /\ tpc = "idle"

SpectrumIdle ==
    /\ seg_stft = <<>> /\ cut_dc = FALSE /\ output_phase = FALSE
    /\ cut_last_timeframe = FALSE /\ sp_output = <<>> /\ sppc = "idle"

ArrayIdle == LabelIdle /\ SubIdle /\ WaveIdle /\ Seg2Idle
TrainIdle ==
    /\ tr_patience = 0 /\ tr_load = None /\ tr_state = <<>> /\ tr_model = 0
    /\ tr_optimizer = 0 /\ tr_file = None /\ tr_saves = <<>>
    /\ tr_val_loss = 0 /\ tr_val_hist = <<>> /\ tr_err = "none"
    /\ trpc = "idle"

CsvIdle ==
    /\ csv_dur = 1 /\ csv_step = 1 /\ csv_max_overlap = 1 /\ csv_df = <<>>
    /\ csv_index = 0 /\ csv_cl = <<>> /\ csv_loc = <<>> /\ csv_stacked = None
    /\ csv_err = "none" /\ cpc = "idle"

PrepIdle ==
    /\ prep_num_mics = 1 /\ prep_files = <<>> /\ prep_index = 0
    /\ predictors_train = <<>> /\ predictors_test = <<>>
    /\ target_train = <<>> /\ target_test = <<>> /\ prep_saved = None
    /\ prepc = "idle"

MoreIdle == SpectrumIdle /\ TrainIdle /\ CsvIdle /\ PrepIdle

----------------------------------------------------------------------------
(* get_label_task2 as a state machine: one step per visited event, one per *)
(* completed frame, then the return, then the decode of the result.        *)

\* lines 168-188: the two lists of rows of None, and the csv read
LabelInit ==
    /\ events \in CsvFiles
    /\ j = 0
    /\ pos = 1
    /\ class_vec = [f \in 0..(NumFrames - 1) |->
                        [k \in 0..(num_classes * 3 - 1) |-> None]]
    /\ loc_vec = [f \in 0..(NumFrames - 1) |->
                      [k \in 0..(num_classes * 9 - 1) |-> None]]
    /\ stacked = None
    /\ decoded = <<>>
    /\ lpc = "frames"
    /\ SubIdle /\ WaveIdle /\ Seg2Idle /\ MoreIdle

\* lines 195-227: one event of the iteration over frame j
LabelEvent ==
    /\ lpc = "frames"
    /\ pos <= Len(data_order(events))
    /\ LET clas == data_order(events)[pos].clas
           data == data_order(events)[pos].data
       IN  IF is_in(data, frame_start(j), frame_end(j))
           THEN /\ class_vec' = [class_vec EXCEPT
                                    ![j] = write_class(@, ind_class(clas))]
                /\ loc_vec' = [loc_vec EXCEPT
                                  ![j] = write_loc(@, ind_class(clas), data)]
           ELSE UNCHANGED <<class_vec, loc_vec>>
    /\ pos' = pos + 1
    /\ UNCHANGED <<events, j, stacked, decoded, lpc>>
    /\ UNCHANGED <<sub_vars, wave_vars, seg2_vars, more_vars>>

\* lines 228-233, and the advance of the loop of line 190
LabelFill ==
    /\ lpc = "frames"
    /\ pos > Len(data_order(events))
    /\ class_vec' = [class_vec EXCEPT ![j] = fill_none(@)]
    /\ loc_vec' = [loc_vec EXCEPT ![j] = fill_none(@)]
    /\ IF j + 1 < NumFrames
       THEN j' = j + 1 /\ pos' = 1 /\ lpc' = lpc
       ELSE j' = j /\ pos' = pos /\ lpc' = "stack"
    /\ UNCHANGED <<events, stacked, decoded>>
    /\ UNCHANGED <<sub_vars, wave_vars, seg2_vars, more_vars>>

\* lines 235-244
LabelStack ==
    /\ lpc = "stack"
    /\ stacked' = stack(class_vec, loc_vec, MaxLocValue)
    /\ lpc' = "decode"
    /\ UNCHANGED <<events, j, pos, class_vec, loc_vec, decoded>>
    /\ UNCHANGED <<sub_vars, wave_vars, seg2_vars, more_vars>>

\* the presence part and the location part of the stacked matrix
split_sed(m) ==
    [f \in DOMAIN m |-> [k \in 0..(num_classes * 3 - 1) |-> m[f][k]]]
split_doa(m) ==
    [f \in DOMAIN m |->
        [k \in 0..(num_classes * 9 - 1) |-> m[f][num_classes * 3 + k]]]

\* the stacked matrix split and passed to gen_submission_list_task2
LabelDecode ==
    /\ lpc = "decode"
    /\ decoded' = gen_submission_list_task2(split_sed(stacked),
                       split_doa(stacked), MaxLocValue, MaxOverlap)
    /\ lpc' = "done"
    /\ UNCHANGED <<events, j, pos, class_vec, loc_vec, stacked>>
    /\ UNCHANGED <<sub_vars, wave_vars, seg2_vars, more_vars>>

LabelNext == LabelEvent \/ LabelFill \/ LabelStack \/ LabelDecode

SpecLabel == LabelInit /\ [][LabelNext]_vars

----------------------------------------------------------------------------
(* Claims about get_label_task2.                                           *)

\* frame f has been filled completely (lines 190-233 have run for it)
FrameDone(f) == lpc \in {"stack", "decode", "done"} \/ (lpc = "frames" /\ f < j)

\* the event's interval and the frame's window share a positive duration
Overlaps(r, f) == r.Start < frame_end(f) /\ r.End > frame_start(f)

\* the events of class c the encoder finds in frame f, in encounter order
Found(f, c) ==
    SelectSeq(class_dict(events)[c],
              LAMBDA r : is_in(r, frame_start(f), frame_end(f)))

\* the events of class c found in frame j among the first n visited
FoundSoFar(c, n) ==
    SelectSeq(SubSeq(data_order(events), 1, n),
              LAMBDA e : e.clas = c /\ is_in(e.data, frame_start(j), frame_end(j)))

\* C1: in every filled frame a class has a presence slot set to 1 exactly
\* when one of its events overlaps the frame's window for a positive
\* duration (events on the frame's borders included).
C1_OverlapIffMarked ==
    \A f \in 0..(NumFrames - 1) : \A c \in 1..num_classes :
        FrameDone(f) =>
            ( (\E k \in 1..Len(events) :
                   events[k].Class = classes_[c] /\ Overlaps(events[k], f))
              <=> (\E sl \in 0..2 : class_vec[f][ind_class(c) + sl] = Some(1)) )

\* C2: in every filled frame the i-th event found for a class (i = 0, 1, 2)
\* has presence slot i set to 1 and its (x, y, z) in location slot i.
C2_SameSlotIndex ==
    \A f \in 0..(NumFrames - 1) : \A c \in 1..num_classes :
        FrameDone(f) =>
            \A i \in 0..2 :
                i < Len(Found(f, c)) =>
                    LET r == Found(f, c)[i + 1]
                        b == ind_class(c) * 3 + 3 * i
                    IN  /\ class_vec[f][ind_class(c) + i] = Some(1)
                        /\ loc_vec[f][b] = Some(r.X)
                        /\ loc_vec[f][b + 1] = Some(r.Y)
                        /\ loc_vec[f][b + 2] = Some(r.Z)

\* C3: in the returned matrix every slot whose presence is 0 has the
\* location (0, 0, 0).
C3_AbsentSlotZeroLocation ==
    lpc \in {"decode", "done"} =>
        \A f \in 0..(NumFrames - 1) : \A sl \in 0..(num_classes * 3 - 1) :
            stacked[f][sl] = Zero =>
                \A k \in 0..2 : stacked[f][num_classes * 3 + sl * 3 + k] = Zero

\* the event visited by this step overlaps frame j though three events of
\* its class were found in the frame before it
OverflowStep ==
    /\ lpc = "frames"
    /\ pos <= Len(data_order(events))
    /\ is_in(data_order(events)[pos].data, frame_start(j), frame_end(j))
    /\ Len(FoundSoFar(data_order(events)[pos].clas, pos - 1)) >= 3

\* C4 as claimed: a further event of a class whose three slots are filled
\* changes neither the presence nor the location values of the frame.
C4_StopsWriting ==
    [][OverflowStep => (class_vec' = class_vec /\ loc_vec' = loc_vec)]_vars

\* C4 amended: a further event leaves the presence values and the location
\* of slot 0 of its class unchanged, and overwrites location slot 1 or 2 of
\* its class with its own (x, y, z); nothing else in the frame changes.
C4_OverwritesLaterSlot ==
    [][OverflowStep =>
        LET e == data_order(events)[pos]
            b == ind_class(e.clas) * 3
        IN  /\ class_vec' = class_vec
            /\ \A sl \in 0..2 :
                   class_vec[j][ind_class(e.clas) + sl] = Some(1)
            /\ \E sl \in {1, 2} :
                   loc_vec' = [loc_vec EXCEPT
                                 ![j] = put_xyz(@, ind_class(e.clas), 3 * sl, e.data)]
            /\ \A k \in 0..2 : loc_vec'[j][b + k] = loc_vec[j][b + k]
    ]_vars

\* a fourth (or later) overlapping event of a class has just been visited
C4_Witness ==
    /\ lpc = "frames"
    /\ pos > 1
    /\ is_in(data_order(events)[pos - 1].data, frame_start(j), frame_end(j))
    /\ Len(FoundSoFar(data_order(events)[pos - 1].clas, pos - 2)) >= 3

\* no frame has more than three events of one class found in it
NoOverflow ==
    \A f \in 0..(NumFrames - 1) : \A c \in 1..num_classes :
        Len(Found(f, c)) <= MaxOverlap

\* the rows C6 expects: one per frame and event marked active in it
ExpectedRows ==
    { <<f, c - 1, Rat(Found(f, c)[i].X, 1), Rat(Found(f, c)[i].Y, 1),
        Rat(Found(f, c)[i].Z, 1)>> :
        <<f, c, i>> \in { t \in (0..(NumFrames - 1)) \X (1..num_classes)
                                   \X (1..MaxOverlap) : t[3] <= Len(Found(t[1], t[2])) } }

\* C6: when no frame holds more than three events of a class, decoding the
\* encoded matrix gives exactly one row per frame and active event, with
\* the event's class id and original coordinates.
C6_RoundTrip ==
    (lpc = "done" /\ NoOverflow) =>
        /\ { decoded[n] : n \in 1..Len(decoded) } = ExpectedRows
        /\ Len(decoded) = Cardinality(ExpectedRows)

----------------------------------------------------------------------------
(* gen_submission_list_task2 on model output: one step per frame of the    *)
(* loop of line 90.  The frames of sed and doa are read one at a time, so  *)
(* the frame's pair (c, l) is chosen when the loop reaches it.             *)

SubFrames == 2     \* frames in sed and doa

\* presence scores in [0, 1]: 0.4, the tie 0.5, and 1.0
Scores == { Rat(4, 10), Rat(5, 10), Rat(1, 1) }

\* the rows of scores a frame may carry: every pattern of 0.4 and 1.0, and
\* the rows with one slot at the tie beside slots that all hold the same score
SedRows ==
    { c \in [0..(num_classes * MaxOverlap - 1) -> Scores] :
        LET ties == { sl \in DOMAIN c : c[sl] = Rat(5, 10) }
        IN  \/ ties = {}
            \/ /\ Cardinality(ties) = 1
               /\ \A a, b \in DOMAIN c \ ties : c[a] = c[b] }

\* the locations of frame i: distinct numbers in (0, 1] that identify the
\* cell (the function never inspects a location's value)
DoaRow(i) ==
    [k \in 0..(num_classes * MaxOverlap * 3 - 1) |->
        Rat(k + 1 + i, num_classes * MaxOverlap * 3 + SubFrames)]

SubInit ==
    /\ sed_row = <<>> /\ doa_row = <<>>
    /\ sub_i = 0
    /\ output = <<>>
    /\ prev_output = <<>>
    /\ spc = "loop"
    /\ LabelIdle /\ WaveIdle /\ Seg2Idle /\ MoreIdle

\* lines 90-103: the iteration for frame i = sub_i
SubFrame ==
    /\ spc = "loop"
    /\ sub_i < SubFrames
    /\ \E c \in SedRows :
          /\ sed_row' = c
          /\ doa_row' = DoaRow(sub_i)
          /\ output' = output \o frame_rows(sub_i, c, DoaRow(sub_i),
                                            MaxLocValue, MaxOverlap)
    /\ prev_output' = output
    /\ sub_i' = sub_i + 1
    /\ spc' = spc
    /\ UNCHANGED <<label_vars, wave_vars, seg2_vars, more_vars>>

\* line 105: the frames are exhausted, the list is returned
SubReturn ==
    /\ spc = "loop"
    /\ sub_i = SubFrames
    /\ spc' = "done"
    /\ UNCHANGED <<sed_row, doa_row, sub_i, output, prev_output>>
    /\ UNCHANGED <<label_vars, wave_vars, seg2_vars, more_vars>>

SubNext == SubFrame \/ SubReturn

SpecSubmission == SubInit /\ [][SubNext]_vars

\* the slots of a set, in ascending order
RECURSIVE Ascending(_)
Ascending(S) ==
    IF S = {} THEN <<>>
    ELSE LET m == CHOOSE x \in S : \A y \in S : x <= y
         IN  <<m>> \o Ascending(S \ {m})

\* the slots of a row of scores that are above 0.5
ActiveSlots(c) == { sl \in DOMAIN c : 2 * c[sl][1] > c[sl][2] }

\* the row C5 expects for slot sl of frame i
ExpectedRow(i, l, sl) ==
    LET cls == sl \div MaxOverlap
        ev == sl % MaxOverlap
        at == (cls * MaxOverlap + ev) * 3
    IN  <<i, cls, RatMul(Rat(MaxLocValue, 1), l[at]),
          RatMul(Rat(MaxLocValue, 1), l[at + 1]),
          RatMul(Rat(MaxLocValue, 1), l[at + 2])>>

\* C5: the rows a frame adds to the list are exactly, in ascending slot
\* order, one row [frame, slot div max_overlaps, max_loc_value * (x, y, z)]
\* per slot whose score is above 0.5, the rows of earlier frames staying in
\* front of them; a frame without such a slot adds nothing.
C5_SubmissionRows ==
    (spc \in {"loop", "done"} /\ sub_i > 0) =>
        output = prev_output \o
                 [n \in 1..Cardinality(ActiveSlots(sed_row)) |->
                     ExpectedRow(sub_i - 1, doa_row,
                                 Ascending(ActiveSlots(sed_row))[n])]

\* the list holds rows of two frames, the later frame has rows of both
\* classes and a slot at 0.5
C5_Witness ==
    /\ spc = "done"
    /\ prev_output # <<>>
    /\ Len(output) >= Len(prev_output) + 2
    /\ output[Len(output)][2] = 1
    /\ output[Len(prev_output) + 1][2] = 0
    /\ \E a \in DOMAIN sed_row : sed_row[a] = Rat(5, 10)

----------------------------------------------------------------------------
(* Arrays cut along the trailing (time) axis.  An array is a function from *)
(* its leading index (a channel, or a pair of leading indices) to its row  *)
(* of samples over 0..T-1; slicing and padding act on every row alike.     *)

Min(a, b) == IF a < b THEN a ELSE b

\* x.shape[-1]
Width(x) == IF DOMAIN x = {} THEN 0
            ELSE Cardinality(DOMAIN x[CHOOSE r \in DOMAIN x : TRUE])

\* np.arange(0, stop, step) for step >= 1, as cuts[0], cuts[1], ...
arange_drop_last(stop, step) ==
    [i \in 0..((stop \div step) - 1) |-> i * step]
arange(stop, step) ==
    [i \in 0..(((stop + step - 1) \div step) - 1) |-> i * step]

\* len() of an array indexed from 0
len(a) == Cardinality(DOMAIN a)

\* x[..., start:end], clipped to the array as Python slices are
slice(x, start, end) ==
    [r \in DOMAIN x |->
        [t \in 0..(Min(end, Width(x)) - start - 1) |-> x[r][start + t]]]

\* line 256/284 when x is wider than the zeros: numpy cannot broadcast x
\* into pad[..., :x.shape[-1]] and raises a ValueError
pad_raises(x, d) == Width(x) > d

\* padding that puts the samples at the end of the zeros
pad_right_aligned(x, d) ==
    [r \in DOMAIN x |->
        [t \in 0..(d - 1) |->
            IF t >= d - Width(x) THEN x[r][t - (d - Width(x))] ELSE 0]]

\* pad (lines 254-257 and 282-285): zeros of width d whose first
\* x.shape[-1] columns are set to x (for x no wider than d)
pad(x, d) ==
    [r \in DOMAIN x |->
        [t \in 0..(d - 1) |-> IF t < Width(x) THEN x[r][t] ELSE 0]]

----------------------------------------------------------------------------
(* segment_waveforms                                                       *)

MaxLen == 5        \* samples in predictors and target
MaxSeg == 3        \* the segment length
SampleValues == {0, 1}

Waveforms(L) == [0..0 -> [0..(L - 1) -> SampleValues]]

WaveInit ==
    /\ \E L \in 1..MaxLen :
          /\ w_predictors \in Waveforms(L)
          /\ w_target \in Waveforms(L)
    /\ w_length \in 1..MaxSeg
    /\ w_cuts = <<>>
    /\ w_i = 0
    /\ w_X = <<>>
    /\ w_Y = <<>>
    /\ wpc = "start"
    /\ LabelIdle /\ SubIdle /\ Seg2Idle /\ MoreIdle

\* line 259
WaveCuts ==
    /\ wpc = "start"
    /\ w_cuts' = arange(Width(w_predictors), w_length)
    /\ wpc' = "loop"
    /\ UNCHANGED <<w_predictors, w_target, w_length, w_i, w_X, w_Y>>
    /\ UNCHANGED <<label_vars, sub_vars, seg2_vars, more_vars>>

\* lines 262-273: iteration i of the loop
WaveChunk ==
    /\ wpc = "loop"
    /\ w_i < len(w_cuts)
    /\ LET start == w_cuts[w_i]
       IN  IF w_i # len(w_cuts) - 1
           THEN /\ w_X' = Append(w_X, slice(w_predictors, start, w_cuts[w_i + 1]))
                /\ w_Y' = Append(w_Y, slice(w_target, start, w_cuts[w_i + 1]))
           ELSE /\ w_X' = Append(w_X, pad(slice(w_predictors, start,
                                                Width(w_predictors)), w_length))
                /\ w_Y' = Append(w_Y, pad(slice(w_target, start,
                                                Width(w_predictors)), w_length))
    /\ w_i' = w_i + 1
    /\ UNCHANGED <<w_predictors, w_target, w_length, w_cuts, wpc>>
    /\ UNCHANGED <<label_vars, sub_vars, seg2_vars, more_vars>>

\* line 274
WaveReturn ==
    /\ wpc = "loop"
    /\ w_i = len(w_cuts)
    /\ wpc' = "done"
    /\ UNCHANGED <<w_predictors, w_target, w_length, w_cuts, w_i, w_X, w_Y>>
    /\ UNCHANGED <<label_vars, sub_vars, seg2_vars, more_vars>>

WaveNext == WaveCuts \/ WaveChunk \/ WaveReturn

SpecWave == WaveInit /\ [][WaveNext]_vars

\* the chunks of a list joined along the time axis, as one row of samples
\* per leading index
RECURSIVE JoinRow(_, _)
JoinRow(chunks, r) ==
    IF chunks = <<>> THEN <<>>
    ELSE [t \in 1..Width(Head(chunks)) |-> Head(chunks)[r][t - 1]]
         \o JoinRow(Tail(chunks), r)

\* row r of array x as a sequence
RowSeq(x, r) == [t \in 1..Width(x) |-> x[r][t - 1]]

\* C7: joining the chunks along the time axis and cutting the result to the
\* original length gives back the predictors and the target.
C7_JoinTruncate ==
    wpc = "done" =>
        /\ \A r \in DOMAIN w_predictors :
              SubSeq(JoinRow(w_X, r), 1, Width(w_predictors))
                  = RowSeq(w_predictors, r)
        /\ \A r \in DOMAIN w_target :
              SubSeq(JoinRow(w_Y, r), 1, Width(w_target)) = RowSeq(w_target, r)

\* a result of several chunks whose last chunk had to be padded, on a
\* signal that ends with a non-zero sample
C7_Witness ==
    /\ wpc = "done"
    /\ Len(w_X) >= 2
    /\ Width(w_predictors) % w_length # 0
    /\ w_predictors[0][Width(w_predictors) - 1] # 0
    /\ w_target[0][Width(w_target) - 1] # 0

\* C8: there are ceil(L/n) chunks of predictors and of target, each n
\* samples wide; chunk i holds the samples i*n .. i*n+n-1 of the input, and
\* the positions of the last chunk past the end of the input hold zeros.
C8_ChunkShape ==
    wpc = "done" =>
        LET L == Width(w_predictors)
            n == w_length
        IN  /\ Len(w_X) * n >= L /\ (Len(w_X) - 1) * n < L
            /\ Len(w_Y) = Len(w_X)
            /\ \A i \in 1..Len(w_X) :
                  /\ Width(w_X[i]) = n /\ Width(w_Y[i]) = n
                  /\ \A t \in 0..(n - 1) :
                        LET at == (i - 1) * n + t
                        IN  /\ w_X[i][0][t] =
                                 IF at < L THEN w_predictors[0][at] ELSE 0
                            /\ w_Y[i][0][t] =
                                 IF at < L THEN w_target[0][at] ELSE 0

\* the analogue of 105 samples cut at 50: 5 samples cut at 2 give 3 chunks,
\* the last holding one sample
C8_Witness ==
    /\ wpc = "done"
    /\ Width(w_predictors) = 5 /\ w_length = 2
    /\ Len(w_X) = 3
    /\ w_predictors[0][4] = 1

----------------------------------------------------------------------------
(* segment_task2                                                           *)

MaxP == 7          \* time steps of the predictors
MaxT == 6          \* frames of the target
MaxPls == 6        \* predictors_len_segment
MaxTls == 4        \* target_len_segment
FeatureCounts == {1, 2}        \* target.shape[-1]
\* overlap, as exact fractions: 0, 0.25, 0.5, 0.75
OverlapValues == { <<0, 1>>, <<1, 4>>, <<1, 2>>, <<3, 4>> }

\* predictors of shape (1, 1, P); sample t holds t + 1, which names its place
Predictors(P) == [r \in {<<0, 0>>} |-> [t \in 0..(P - 1) |-> t + 1]]

\* target of shape (T, F); entry (t, f) holds t * F + f + 1, which names
\* its place
Target(T, F) == [t \in 0..(T - 1) |-> [f \in 0..(F - 1) |-> t * F + f + 1]]

\* the entries of a matrix m[row][column] in row-major (C) order
flat2(m) ==
    LET cols == len(m[0])
    IN  [n \in 0..(len(m) * cols - 1) |-> m[n \div cols][n % cols]]

\* line 287: target.reshape(1, target.shape[-1], target.shape[0])
reshape_target(target) ==
    LET T == len(target)
        F == len(target[0])
    IN  [r \in {0} \X (0..(F - 1)) |->
            [k \in 0..(T - 1) |-> flat2(target)[r[2] * T + k]]]

\* line 308: np.reshape(cut_y, (cut_y.shape[-1], cut_y.shape[1]))
reshape_cut(cut_y) ==
    LET w == Width(cut_y)
        F == Cardinality(DOMAIN cut_y)
    IN  [r \in 0..(w - 1) |->
            [c \in 0..(F - 1) |->
                cut_y[<<0, (r * F + c) \div w>>][(r * F + c) % w]]]

\* int(len_segment * overlap), lines 288-289
cut_step(len_segment, overlap) == (len_segment * overlap[1]) \div overlap[2]

Seg2Init ==
    /\ \E P \in 1..MaxP : t_predictors = Predictors(P)
    /\ \E T \in 1..MaxT : \E F \in FeatureCounts : t_target = Target(T, F)
    /\ t_pls \in 1..MaxPls
    /\ t_tls \in 1..MaxTls
    /\ t_overlap \in OverlapValues
    /\ t_cuts_p = <<>>
    /\ t_cuts_t = <<>>
    /\ t_i = 0
    /\ t_X = <<>>
    /\ t_Y = <<>>
    /\ t_err = "none"
    /\ tpc = "start"
    /\ LabelIdle /\ SubIdle /\ WaveIdle /\ MoreIdle

\* lines 288-289 with a step of 0: np.arange divides by the step and raises
Seg2ZeroStep ==
    /\ tpc = "start"
    /\ cut_step(t_pls, t_overlap) = 0 \/ cut_step(t_tls, t_overlap) = 0
    /\ t_err' = "ZeroDivisionError"
    /\ tpc' = "error"
    /\ UNCHANGED <<t_predictors, t_target, t_pls, t_tls, t_overlap,
                   t_cuts_p, t_cuts_t, t_i, t_X, t_Y>>
    /\ UNCHANGED <<label_vars, sub_vars, wave_vars, more_vars>>

\* lines 287-292: the cut points of both streams and the check of their
\* numbers
Seg2Cuts ==
    /\ tpc = "start"
    /\ cut_step(t_pls, t_overlap) > 0 /\ cut_step(t_tls, t_overlap) > 0
    /\ t_cuts_p' = arange(Width(t_predictors), cut_step(t_pls, t_overlap))
    /\ t_cuts_t' = arange(Width(reshape_target(t_target)),
                          cut_step(t_tls, t_overlap))
    /\ IF len(t_cuts_p') # len(t_cuts_t')
       THEN t_err' = "ValueError" /\ tpc' = "error"
       ELSE t_err' = t_err /\ tpc' = "loop"
    /\ UNCHANGED <<t_predictors, t_target, t_pls, t_tls, t_overlap,
                   t_i, t_X, t_Y>>
    /\ UNCHANGED <<label_vars, sub_vars, wave_vars, more_vars>>

\* lines 296-306: the two cuts of iteration i
cut_x_of(i) ==
    LET start_p == t_cuts_p[i]
        end_p == start_p + t_pls
    IN  IF end_p <= Width(t_predictors)
        THEN slice(t_predictors, start_p, end_p)
        ELSE pad(slice(t_predictors, start_p, Width(t_predictors)), t_pls)

cut_y_of(i) ==
    LET target == reshape_target(t_target)
        start_p == t_cuts_p[i]
        start_t == t_cuts_t[i]
        end_p == start_p + t_pls
        end_t == start_t + t_tls
    IN  IF end_p <= Width(t_predictors)
        THEN slice(target, start_t, end_t)
        ELSE pad(slice(target, start_t, Width(target)), t_tls)

\* lines 304-306: the chunk of the predictors passes the end of the buffer
\* and one of the two pads cannot hold the rest of its stream
cut_raises(i) ==
    LET target == reshape_target(t_target)
    IN  /\ t_cuts_p[i] + t_pls > Width(t_predictors)
        /\ \/ pad_raises(slice(t_predictors, t_cuts_p[i], Width(t_predictors)),
                          t_pls)
           \/ pad_raises(slice(target, t_cuts_t[i], Width(target)), t_tls)

\* lines 295-311: iteration i of the loop; a pad that cannot hold its
\* argument raises numpy's ValueError and ends the call
Seg2Chunk ==
    /\ tpc = "loop"
    /\ t_i < len(t_cuts_p)
    /\ IF cut_raises(t_i)
       THEN /\ t_err' = "ValueError"
            /\ tpc' = "error"
            /\ UNCHANGED <<t_i, t_X, t_Y>>
       ELSE /\ t_X' = Append(t_X, cut_x_of(t_i))
            /\ t_Y' = Append(t_Y, reshape_cut(cut_y_of(t_i)))
            /\ t_i' = t_i + 1
            /\ UNCHANGED <<t_err, tpc>>
    /\ UNCHANGED <<t_predictors, t_target, t_pls, t_tls, t_overlap,
                   t_cuts_p, t_cuts_t>>
    /\ UNCHANGED <<label_vars, sub_vars, wave_vars, more_vars>>

\* line 316
Seg2Return ==
    /\ tpc = "loop"
    /\ t_i = len(t_cuts_p)
    /\ tpc' = "done"
    /\ UNCHANGED <<t_predictors, t_target, t_pls, t_tls, t_overlap,
                   t_cuts_p, t_cuts_t, t_i, t_X, t_Y, t_err>>
    /\ UNCHANGED <<label_vars, sub_vars, wave_vars, more_vars>>

Seg2Next == Seg2ZeroStep \/ Seg2Cuts \/ Seg2Chunk \/ Seg2Return

SpecSeg2 == Seg2Init /\ [][Seg2Next]_vars

\* segment_len x (1 - overlap), cut to whole steps
ClaimedStride(len_segment, overlap) ==
    (len_segment * (overlap[2] - overlap[1])) \div overlap[2]

\* segment_len x (1 - overlap) is a whole number of steps
WholeStride(len_segment, overlap) ==
    (len_segment * (overlap[2] - overlap[1])) % overlap[2] = 0

\* C9: once the cut points are computed, consecutive cut points of the
\* predictors are predictors_len_segment x (1 - overlap) apart and those of
\* the target target_len_segment x (1 - overlap) apart (stated where these
\* products are whole numbers).
C9_StrideOneMinusOverlap ==
    tpc \in {"loop", "done"} =>
        /\ WholeStride(t_pls, t_overlap) =>
              \A i \in 0..(len(t_cuts_p) - 2) :
                  t_cuts_p[i + 1] - t_cuts_p[i] = ClaimedStride(t_pls, t_overlap)
        /\ WholeStride(t_tls, t_overlap) =>
              \A i \in 0..(len(t_cuts_t) - 2) :
                  t_cuts_t[i + 1] - t_cuts_t[i] = ClaimedStride(t_tls, t_overlap)

\* C10: the call either fails with a ValueError, exactly when the numbers of
\* cut points differ and with no chunk produced, or returns two lists of
\* the same length whose i-th chunks start at the i-th cut point of their
\* stream.
C10_ValueErrorOrAlignedLists ==
    /\ tpc = "error" =>
          /\ t_err = "ValueError"
          /\ len(t_cuts_p) # len(t_cuts_t)
          /\ t_X = <<>> /\ t_Y = <<>>
    /\ tpc \in {"loop", "done"} => len(t_cuts_p) = len(t_cuts_t)
    /\ tpc = "done" =>
          /\ Len(t_X) = Len(t_Y)
          /\ Len(t_X) = len(t_cuts_p)
          /\ \A i \in 1..Len(t_X) :
                /\ t_X[i][<<0, 0>>][0] = t_predictors[<<0, 0>>][t_cuts_p[i - 1]]
                /\ t_Y[i][0][0] =
                       reshape_target(t_target)[<<0, 0>>][t_cuts_t[i - 1]]

\* C11: when the call returns, every chunk of the predictors is
\* predictors_len_segment time steps wide and every chunk of the target has
\* target_len_segment frames.
C11_ChunkLengths ==
    tpc = "done" =>
        \A i \in 1..Len(t_X) :
            /\ Width(t_X[i]) = t_pls
            /\ len(t_Y[i]) = t_tls

\* frame `at` of the target, or a frame of zeros past its end
frame_or_zeros(at) ==
    IF at < len(t_target) THEN t_target[at]
    ELSE [f \in DOMAIN t_target[0] |-> 0]

\* C16: for a target with more than one feature, row r of the i-th chunk of
\* the target is the label frame start_t + r of the original target, its
\* features in their order, and a row of zeros past the end of the target.
C16_TargetRowsAreFrames ==
    (tpc = "done" /\ len(t_target[0]) > 1) =>
        \A i \in 1..Len(t_Y) :
            \A r \in DOMAIN t_Y[i] :
                t_Y[i][r] = frame_or_zeros(t_cuts_t[i - 1] + r)

----------------------------------------------------------------------------
(* spectrum_fast.  A 3-d array is a record of its shape and of its entries *)
(* by index triple, so that an array with an empty axis keeps its shape.   *)
(* The transform itself (scipy's stft, line 61) is not computed: its       *)
(* entry (c, f, t) is the token <<"Z", c, f, t>>, and np.abs and np.angle  *)
(* wrap the entry they are applied to.                                     *)

MaxChannels == 2       \* channels of the signal
MaxBins == 3           \* frequency bins of the transform
MaxTimeFrames == 3     \* time frames of the transform

Index(shape) ==
    (0..(shape[1] - 1)) \X (0..(shape[2] - 1)) \X (0..(shape[3] - 1))

\* seg_stft of line 61 for a transform of C channels, F bins and T frames
stft(C, F, T) ==
    [shape |-> <<C, F, T>>,
     at |-> [ix \in Index(<<C, F, T>>) |-> <<"Z", ix[1], ix[2], ix[3]>>]]

\* np.abs and np.angle, element by element
np_abs(a) ==
    [shape |-> a.shape, at |-> [ix \in DOMAIN a.at |-> <<"abs", a.at[ix]>>]]
np_angle(a) ==
    [shape |-> a.shape, at |-> [ix \in DOMAIN a.at |-> <<"angle", a.at[ix]>>]]

\* np.concatenate((a, b), axis=-3) of two 3-d arrays: b after a along the
\* first axis
concatenate(a, b) ==
    LET shape == <<a.shape[1] + b.shape[1], a.shape[2], a.shape[3]>>
    IN  [shape |-> shape,
         at |-> [ix \in Index(shape) |->
                    IF ix[1] < a.shape[1] THEN a.at[ix]
                    ELSE b.at[<<ix[1] - a.shape[1], ix[2], ix[3]>>]]]

\* a slice that drops the last frequency bin instead of the first
drop_last_bin(a) ==
    LET shape == <<a.shape[1], a.shape[2] - 1, a.shape[3]>>
    IN  [shape |-> shape, at |-> [ix \in Index(shape) |-> a.at[ix]]]

\* output[:,1:,:]
drop_dc(a) ==
    LET shape == <<a.shape[1], a.shape[2] - 1, a.shape[3]>>
    IN  [shape |-> shape,
         at |-> [ix \in Index(shape) |-> a.at[<<ix[1], ix[2] + 1, ix[3]>>]]]

\* output[:,:,:-1]
drop_last_timeframe(a) ==
    LET shape == <<a.shape[1], a.shape[2], a.shape[3] - 1>>
    IN  [shape |-> shape, at |-> [ix \in Index(shape) |-> a.at[ix]]]

SpectrumInit ==
    /\ \E C \in 1..MaxChannels, F \in 1..MaxBins, T \in 1..MaxTimeFrames :
          seg_stft = stft(C, F, T)
    /\ cut_dc \in BOOLEAN
    /\ output_phase \in BOOLEAN
    /\ cut_last_timeframe \in BOOLEAN
    /\ sp_output = <<>>
    /\ sppc = "abs"
    /\ ArrayIdle /\ TrainIdle /\ CsvIdle /\ PrepIdle

\* line 68
SpectrumAbs ==
    /\ sppc = "abs"
    /\ sp_output' = np_abs(seg_stft)
    /\ sppc' = "phase"
    /\ UNCHANGED <<seg_stft, cut_dc, output_phase, cut_last_timeframe>>
    /\ UNCHANGED <<array_vars, train_vars, csv_vars, prep_vars>>

\* lines 70-72
SpectrumPhase ==
    /\ sppc = "phase"
    /\ sp_output' = IF output_phase
                    THEN concatenate(sp_output, np_angle(seg_stft))
                    ELSE sp_output
    /\ sppc' = "dc"
    /\ UNCHANGED <<seg_stft, cut_dc, output_phase, cut_last_timeframe>>
    /\ UNCHANGED <<array_vars, train_vars, csv_vars, prep_vars>>

\* lines 74-75
SpectrumCutDc ==
    /\ sppc = "dc"
    /\ sp_output' = IF cut_dc THEN drop_dc(sp_output) ELSE sp_output
    /\ sppc' = "last"
    /\ UNCHANGED <<seg_stft, cut_dc, output_phase, cut_last_timeframe>>
    /\ UNCHANGED <<array_vars, train_vars, csv_vars, prep_vars>>

\* lines 77-81
SpectrumCutLast ==
    /\ sppc = "last"
    /\ sp_output' = IF cut_last_timeframe
                    THEN drop_last_timeframe(sp_output)
                    ELSE sp_output
    /\ sppc' = "done"
    /\ UNCHANGED <<seg_stft, cut_dc, output_phase, cut_last_timeframe>>
    /\ UNCHANGED <<array_vars, train_vars, csv_vars, prep_vars>>

SpectrumNext ==
    SpectrumAbs \/ SpectrumPhase \/ SpectrumCutDc \/ SpectrumCutLast

SpecSpectrum == SpectrumInit /\ [][SpectrumNext]_vars

\* C14: the returned array has 2C feature rows with output_phase (the C
\* magnitudes, then the C phases) and C otherwise; with cut_dc its bin k is
\* bin k+1 of the transform and it has F-1 bins, otherwise F; with
\* cut_last_timeframe it has the first T-1 time frames, otherwise T; each
\* option acts whatever the other two are.
C14_SpectrumLayout ==
    sppc = "done" =>
        LET C == seg_stft.shape[1]
            F == seg_stft.shape[2]
            T == seg_stft.shape[3]
            dc == IF cut_dc THEN 1 ELSE 0
        IN  /\ sp_output.shape =
                  << IF output_phase THEN 2 * C ELSE C,
                     F - dc,
                     IF cut_last_timeframe THEN T - 1 ELSE T >>
            /\ DOMAIN sp_output.at = Index(sp_output.shape)
            /\ \A ix \in Index(sp_output.shape) :
                  sp_output.at[ix] =
                      IF ix[1] < C
                      THEN <<"abs", <<"Z", ix[1], ix[2] + dc, ix[3]>>>>
                      ELSE <<"angle", <<"Z", ix[1] - C, ix[2] + dc, ix[3]>>>>

\* a result with all three options on, from a transform with two channels
\* and more than one bin and time frame
C14_Witness ==
    /\ sppc = "done"
    /\ cut_dc /\ output_phase /\ cut_last_timeframe
    /\ seg_stft.shape[1] = 2 /\ seg_stft.shape[2] >= 2 /\ seg_stft.shape[3] >= 2
    /\ sp_output.at[<<2, 0, 0>>] = <<"angle", <<"Z", 0, 1, 0>>>>

----------------------------------------------------------------------------
(* save_model and load_model (src/utility_functions.py) and the training   *)
(* loop of main (src/train_baseline_task1_fasnet.py).                      *)
(*  - A dict is a function from its keys; a bundle is the dict given to    *)
(*    torch.save.                                                          *)
(*  - The parameters of the model and of the optimizer are identified by   *)
(*    the number of optimizer steps that produced them.                    *)
(*  - A loss is a whole number, np.Inf or nan; comparisons follow float    *)
(*    comparison, where every comparison with nan is false.                *)

MaxPatience == 2      \* largest args.patience
MaxEpochs == 5        \* epochs one run of the model may train
NumBatches == 1       \* batches in the training data
Inf == 9              \* np.Inf, above every other loss
NaN == -1             \* float nan
Losses == {1, 2, Inf, NaN}
\* os.path.join(args.checkpoint_dir, "checkpoint")
checkpoint_path == "checkpoint"

\* a > b on floats
float_gt(a, b) == a # NaN /\ b # NaN /\ a > b
\* a >= b on floats
float_ge(a, b) == a # NaN /\ b # NaN /\ a >= b

\* d[k] = v on a dict
set_item(d, k, v) ==
    [x \in (DOMAIN d) \cup {k} |-> IF x = k THEN v ELSE d[x]]

\* the dict that save_model hands to torch.save (lines 19-23)
save_model(model, optimizer, state) ==
    [model_state_dict |-> model,
     optimizer_state_dict |-> optimizer,
     state |-> state]

\* a load that keeps the step only, whatever the bundle holds
load_model_step_only(checkpoint) ==
    [step |-> IF "state" \in DOMAIN checkpoint THEN checkpoint.state.step
              ELSE checkpoint.step]

\* the value returned by load_model (lines 47-52)
load_model(checkpoint) ==
    IF "state" \in DOMAIN checkpoint THEN checkpoint.state
    ELSE [step |-> checkpoint.step]

\* a bundle written before the state record was stored (line 51)
LegacyBundle(step) ==
    [model_state_dict |-> step, optimizer_state_dict |-> step, step |-> step]

\* a bundle holds everything load_model reads
Complete(b) ==
    /\ {"model_state_dict", "optimizer_state_dict"} \subseteq DOMAIN b
    /\ "state" \in DOMAIN b \/ "step" \in DOMAIN b

----------------------------------------------------------------------------
(* save_model followed by load_model on records of any content.            *)

MaxStep == 1          \* largest counter value in a record to save

StateRecords ==
    LET base == [step : 0..MaxStep, worse_epochs : 0..MaxStep,
                 epochs : 0..MaxStep, best_loss : Losses]
    IN  base \cup { set_item(st, "best_checkpoint", checkpoint_path) :
                    st \in base }

BundleInit ==
    /\ \/ /\ tr_state \in StateRecords
          /\ tr_file = None
          /\ trpc = "bundle_save"
       \/ /\ tr_state = [step |-> 0]
          /\ \E s \in 0..MaxStep : tr_file = Some(LegacyBundle(s))
          /\ trpc = "bundle_load"
    /\ tr_model \in 0..MaxStep
    /\ tr_optimizer = tr_model
    /\ tr_patience = 0 /\ tr_load = None /\ tr_saves = <<>>
    /\ tr_val_loss = 0 /\ tr_val_hist = <<>> /\ tr_err = "none"
    /\ ArrayIdle /\ SpectrumIdle /\ CsvIdle /\ PrepIdle

\* save_model(model, optimizer, state, path), lines 14-23
BundleSave ==
    /\ trpc = "bundle_save"
    /\ tr_file' = Some(save_model(tr_model, tr_optimizer, tr_state))
    /\ tr_saves' = Append(tr_saves, save_model(tr_model, tr_optimizer, tr_state))
    /\ trpc' = "bundle_touch"
    /\ UNCHANGED <<tr_patience, tr_load, tr_state, tr_model, tr_optimizer,
                   tr_val_loss, tr_val_hist, tr_err>>
    /\ UNCHANGED <<array_vars, spectrum_vars, csv_vars, prep_vars>>

\* the caller goes on after the save: one more batch and epoch are counted
\* in the state it holds (train_baseline_task1_fasnet.py, lines 178, 205)
BundleTouch ==
    /\ trpc = "bundle_touch"
    /\ tr_state' = set_item(set_item(tr_state, "step", tr_state.step + 1),
                            "epochs", tr_state.epochs + 1)
    /\ tr_model' = tr_model + 1
    /\ tr_optimizer' = tr_optimizer + 1
    /\ trpc' = "bundle_load"
    /\ UNCHANGED <<tr_patience, tr_load, tr_file, tr_saves, tr_val_loss,
                   tr_val_hist, tr_err>>
    /\ UNCHANGED <<array_vars, spectrum_vars, csv_vars, prep_vars>>

\* state = load_model(model, optimizer, path, cuda), lines 26-52
BundleLoad ==
    /\ trpc = "bundle_load"
    /\ tr_state' = load_model(tr_file[1])
    /\ tr_model' = tr_file[1].model_state_dict
    /\ tr_optimizer' = tr_file[1].optimizer_state_dict
    /\ trpc' = "bundle_done"
    /\ UNCHANGED <<tr_patience, tr_load, tr_file, tr_saves, tr_val_loss,
                   tr_val_hist, tr_err>>
    /\ UNCHANGED <<array_vars, spectrum_vars, csv_vars, prep_vars>>

BundleNext == BundleSave \/ BundleTouch \/ BundleLoad

SpecBundle == BundleInit /\ [][BundleNext]_vars

\* C12: load_model on a bundle written by save_model returns the state
\* record that was saved, with all its fields; on a bundle without a
\* 'state' entry it returns a record holding that bundle's step and nothing
\* else.
C12_LoadReturnsSaved ==
    trpc = "bundle_done" =>
        IF tr_saves # <<>>
        THEN /\ DOMAIN tr_state = DOMAIN tr_saves[1].state
             /\ tr_state = tr_saves[1].state
        ELSE /\ DOMAIN tr_state = {"step"}
             /\ tr_state.step = tr_file[1].step

\* a record with a further field and a nan loss came back from the file,
\* after the caller's own record had moved on
C12_Witness ==
    /\ trpc = "bundle_done"
    /\ tr_saves # <<>>
    /\ "best_checkpoint" \in DOMAIN tr_state
    /\ tr_state.best_loss = NaN
    /\ tr_state.epochs = 1 /\ tr_state.worse_epochs = 1

----------------------------------------------------------------------------
(* The training loop.                                                      *)

\* lines 143-146
initial_state ==
    [step |-> 0, worse_epochs |-> 0, epochs |-> 0, best_loss |-> Inf]

\* the bundles --load_model may point at: one without a state record, and
\* one written by this program after its first epoch
LoadableBundles ==
    { LegacyBundle(NumBatches),
      save_model(NumBatches, NumBatches,
                 [step |-> NumBatches, worse_epochs |-> 0, epochs |-> 0,
                  best_loss |-> 2, best_checkpoint |-> checkpoint_path]) }

\* the checkpoint path holds no file, or it is the file of --load_model
TrainInit ==
    /\ tr_patience \in 0..MaxPatience
    /\ tr_load \in {None} \cup { Some(b) : b \in LoadableBundles }
    /\ tr_file \in {None, tr_load}
    /\ tr_state = initial_state
    /\ tr_model = 0
    /\ tr_optimizer = 0
    /\ tr_saves = <<>>
    /\ tr_val_loss = 0
    /\ tr_val_hist = <<>>
    /\ tr_err = "none"
    /\ trpc = "load"
    /\ ArrayIdle /\ SpectrumIdle /\ CsvIdle /\ PrepIdle

\* lines 148-151
TrainLoad ==
    /\ trpc = "load"
    /\ IF tr_load = None
       THEN UNCHANGED <<tr_state, tr_model, tr_optimizer>>
       ELSE /\ tr_state' = load_model(tr_load[1])
            /\ tr_model' = tr_load[1].model_state_dict
            /\ tr_optimizer' = tr_load[1].optimizer_state_dict
    /\ trpc' = "while"
    /\ UNCHANGED <<tr_patience, tr_load, tr_file, tr_saves, tr_val_loss,
                   tr_val_hist, tr_err>>
    /\ UNCHANGED <<array_vars, spectrum_vars, csv_vars, prep_vars>>

\* line 157: the test of the while loop
TrainWhile ==
    /\ trpc = "while"
    /\ IF "worse_epochs" \notin DOMAIN tr_state
       THEN tr_err' = "KeyError" /\ trpc' = "error"
       ELSE /\ tr_err' = tr_err
            /\ trpc' = IF tr_state.worse_epochs < tr_patience
                       THEN "batches" ELSE "test"
    /\ UNCHANGED <<tr_patience, tr_load, tr_state, tr_model, tr_optimizer,
                   tr_file, tr_saves, tr_val_loss, tr_val_hist>>
    /\ UNCHANGED <<array_vars, spectrum_vars, csv_vars, prep_vars>>

\* lines 158-183: the batches of one epoch
TrainBatches ==
    /\ trpc = "batches"
    /\ Len(tr_val_hist) < MaxEpochs
    /\ tr_state' = set_item(tr_state, "step", tr_state.step + NumBatches)
    /\ tr_model' = tr_model + NumBatches
    /\ tr_optimizer' = tr_optimizer + NumBatches
    /\ trpc' = "validate"
    /\ UNCHANGED <<tr_patience, tr_load, tr_file, tr_saves, tr_val_loss,
                   tr_val_hist, tr_err>>
    /\ UNCHANGED <<array_vars, spectrum_vars, csv_vars, prep_vars>>

\* line 186
TrainValidate ==
    /\ trpc = "validate"
    /\ tr_val_loss' \in Losses
    /\ trpc' = "check"
    /\ UNCHANGED <<tr_patience, tr_load, tr_state, tr_model, tr_optimizer,
                   tr_file, tr_saves, tr_val_hist, tr_err>>
    /\ UNCHANGED <<array_vars, spectrum_vars, csv_vars, prep_vars>>

\* lines 193-199
TrainCheck ==
    /\ trpc = "check"
    /\ IF float_ge(tr_val_loss, tr_state.best_loss)
       THEN /\ tr_state' = set_item(tr_state, "worse_epochs",
                                    tr_state.worse_epochs + 1)
            /\ trpc' = "count"
       ELSE /\ tr_state' =
                set_item(set_item(set_item(tr_state, "worse_epochs", 0),
                                  "best_loss", tr_val_loss),
                         "best_checkpoint", checkpoint_path)
            /\ trpc' = "save"
    /\ UNCHANGED <<tr_patience, tr_load, tr_model, tr_optimizer, tr_file,
                   tr_saves, tr_val_loss, tr_val_hist, tr_err>>
    /\ UNCHANGED <<array_vars, spectrum_vars, csv_vars, prep_vars>>

\* line 203 into utility_functions.py line 19: torch.save opens the
\* checkpoint path itself for writing, which drops what the path held, and
\* writes the entries of the bundle into it one after the other
TrainSaveOpen ==
    /\ trpc = "save"
    /\ tr_saves' = Append(tr_saves, save_model(tr_model, tr_optimizer, tr_state))
    /\ tr_file' = Some([model_state_dict |-> tr_model])
    /\ trpc' = "write"
    /\ UNCHANGED <<tr_patience, tr_load, tr_state, tr_model, tr_optimizer,
                   tr_val_loss, tr_val_hist, tr_err>>
    /\ UNCHANGED <<array_vars, spectrum_vars, csv_vars, prep_vars>>

\* utility_functions.py lines 19-23: the last entry is written and the file
\* is closed
TrainSaveWrite ==
    /\ trpc = "write"
    /\ tr_file' = Some(save_model(tr_model, tr_optimizer, tr_state))
    /\ trpc' = "count"
    /\ UNCHANGED <<tr_patience, tr_load, tr_state, tr_model, tr_optimizer,
                   tr_saves, tr_val_loss, tr_val_hist, tr_err>>
    /\ UNCHANGED <<array_vars, spectrum_vars, csv_vars, prep_vars>>

\* lines 205-208
TrainCount ==
    /\ trpc = "count"
    /\ tr_state' = set_item(tr_state, "epochs", tr_state.epochs + 1)
    /\ tr_val_hist' = Append(tr_val_hist, tr_val_loss)
    /\ trpc' = "while"
    /\ UNCHANGED <<tr_patience, tr_load, tr_model, tr_optimizer, tr_file,
                   tr_saves, tr_val_loss, tr_err>>
    /\ UNCHANGED <<array_vars, spectrum_vars, csv_vars, prep_vars>>

\* lines 210-214: the best model is loaded for the test phase
TrainTest ==
    /\ trpc = "test"
    /\ IF "best_checkpoint" \notin DOMAIN tr_state
       THEN /\ tr_err' = "KeyError" /\ trpc' = "error"
            /\ UNCHANGED <<tr_state, tr_model>>
       ELSE IF tr_file = None
       THEN /\ tr_err' = "FileNotFoundError" /\ trpc' = "error"
            /\ UNCHANGED <<tr_state, tr_model>>
       ELSE /\ tr_state' = load_model(tr_file[1])
            /\ tr_model' = tr_file[1].model_state_dict
            /\ tr_err' = tr_err
            /\ trpc' = "done"
    /\ UNCHANGED <<tr_patience, tr_load, tr_optimizer, tr_file, tr_saves,
                   tr_val_loss, tr_val_hist>>
    /\ UNCHANGED <<array_vars, spectrum_vars, csv_vars, prep_vars>>

\* the process is killed while it is inside save_model
TrainCrash ==
    /\ trpc \in {"save", "write"}
    /\ trpc' = "crashed"
    /\ UNCHANGED <<tr_patience, tr_load, tr_state, tr_model, tr_optimizer,
                   tr_file, tr_saves, tr_val_loss, tr_val_hist, tr_err>>
    /\ UNCHANGED <<array_vars, spectrum_vars, csv_vars, prep_vars>>

TrainNext ==
    \/ TrainLoad \/ TrainWhile \/ TrainBatches \/ TrainValidate
    \/ TrainCheck \/ TrainSaveOpen \/ TrainSaveWrite \/ TrainCount
    \/ TrainTest

TrainCrashNext == TrainNext \/ TrainCrash

\* a training run
SpecTrain == TrainInit /\ [][TrainNext]_vars

\* a training run that may be killed inside save_model
SpecTrainCrash == TrainInit /\ [][TrainCrashNext]_vars

\* a training run in which main keeps executing: every step of main that
\* can be taken is taken
SpecTrainFair == TrainInit /\ [][TrainNext]_vars /\ WF_vars(TrainNext)

\* the file at the checkpoint path is whole and is the bundle of one save:
\* the one --load_model found there, or one handed to torch.save in this run
FileFromOneSave ==
    \/ tr_file = None
    \/ /\ Complete(tr_file[1])
       /\ \/ tr_file = tr_load
          \/ \E i \in 1..Len(tr_saves) : tr_file[1] = tr_saves[i]

\* C13: whenever the run is outside save_model, and after it was killed
\* inside save_model, the checkpoint path holds no bundle or one whole
\* bundle whose model parameters, optimizer parameters and state record
\* come from the same save.
C13_AtomicCheckpoint ==
    trpc # "write" => FileFromOneSave

RequiredFields == {"step", "worse_epochs", "epochs", "best_loss"}

\* C15: in every state of a run, fresh or resumed from any bundle that
\* load_model accepts, the state record holds step, worse_epochs, epochs
\* and best_loss, and no read of one of them fails.
C15_StateHasFields ==
    /\ RequiredFields \subseteq DOMAIN tr_state
    /\ ~(trpc = "error" /\ tr_err = "KeyError"
         /\ ~(RequiredFields \subseteq DOMAIN tr_state))

\* a < b on floats: a is strictly lower than b
strictly_lower(a, b) == a # NaN /\ b # NaN /\ a < b

\* the best loss among the first n epochs of history h, starting from
\* np.Inf and replaced by every strictly lower loss
RECURSIVE BestSoFar(_, _)
BestSoFar(h, n) ==
    IF n = 0 THEN Inf
    ELSE IF strictly_lower(h[n], BestSoFar(h, n - 1)) THEN h[n]
         ELSE BestSoFar(h, n - 1)

\* epoch n of history h was a strict improvement
Improved(h, n) == strictly_lower(h[n], BestSoFar(h, n - 1))

\* the number of most recent epochs, among the first n, without a strict
\* improvement
RECURSIVE WorseRun(_, _)
WorseRun(h, n) ==
    IF n = 0 THEN 0
    ELSE IF Improved(h, n) THEN 0
         ELSE WorseRun(h, n - 1) + 1

FreshStart == tr_load = None /\ tr_patience >= 1

InEpoch == trpc \in {"batches", "validate", "check", "save", "write", "count"}

\* C17: in a fresh run with patience >= 1, at every epoch boundary
\* worse_epochs is the number of most recent epochs in a row whose
\* validation loss was not strictly lower than the best loss before them
\* (a tie counts as no improvement); worse_epochs stays within 0..patience;
\* an epoch is only started while that number is below patience, and the
\* loop is left exactly when it equals patience.
C17_EarlyStopping ==
    FreshStart =>
        /\ trpc \in {"while", "test"} =>
              tr_state.worse_epochs = WorseRun(tr_val_hist, Len(tr_val_hist))
        /\ (trpc \in {"while", "test"} \/ InEpoch) =>
              /\ 0 <= tr_state.worse_epochs
              /\ tr_state.worse_epochs <= tr_patience
        /\ InEpoch => WorseRun(tr_val_hist, Len(tr_val_hist)) < tr_patience
        /\ trpc = "test" =>
              WorseRun(tr_val_hist, Len(tr_val_hist)) = tr_patience

FiniteLosses == \A n \in 1..Len(tr_val_hist) : tr_val_hist[n] \in {1, 2}

\* the lowest loss of a history that is not empty
MinLoss(h) ==
    CHOOSE x \in {h[n] : n \in 1..Len(h)} : \A n \in 1..Len(h) : x <= h[n]

\* the first epoch (counted from 1) whose loss is the lowest of the history
EarliestBest(h) ==
    CHOOSE n \in 1..Len(h) :
        /\ h[n] = MinLoss(h)
        /\ \A k \in 1..(n - 1) : h[k] # MinLoss(h)

\* C18: in a fresh run with patience >= 1 and finite validation losses, at
\* every epoch boundary best_loss is the lowest validation loss of the
\* epochs done; a checkpoint was written in exactly the epochs with a
\* strict improvement; each saved state record has worse_epochs = 0 and
\* best_loss equal to the loss of its epoch; and the model loaded for the
\* test phase is the one saved in the first epoch that reached the lowest
\* loss of the run.
C18_BestModel ==
    (FreshStart /\ FiniteLosses /\ trpc \in {"while", "test", "done"}) =>
        LET h == tr_val_hist
        IN  /\ h # <<>> => tr_state.best_loss = MinLoss(h)
            /\ Len(tr_saves) = Cardinality({n \in 1..Len(h) : Improved(h, n)})
            /\ \A n \in 1..Len(h) :
                  Improved(h, n) <=>
                      \E i \in 1..Len(tr_saves) :
                          tr_saves[i].state.epochs = n - 1
            /\ \A i \in 1..Len(tr_saves) :
                  /\ tr_saves[i].state.worse_epochs = 0
                  /\ tr_saves[i].state.best_loss =
                         h[tr_saves[i].state.epochs + 1]
            /\ trpc = "done" =>
                  /\ tr_model = EarliestBest(h) * NumBatches
                  /\ \E i \in 1..Len(tr_saves) :
                        /\ tr_saves[i].state.epochs = EarliestBest(h) - 1
                        /\ tr_saves[i].model_state_dict = tr_model

\* the test phase was reached after an epoch whose loss tied the best one
\* and after two checkpoints were written
C18_Witness ==
    /\ FreshStart /\ FiniteLosses /\ trpc = "done"
    /\ Len(tr_saves) = 2
    /\ Len(tr_val_hist) >= 3
    /\ tr_val_hist[3] = tr_val_hist[2]
    /\ tr_val_hist[2] = MinLoss(tr_val_hist)

\* the model stopped the run at the bound on its epochs
EpochCap == trpc = "batches" /\ Len(tr_val_hist) >= MaxEpochs

\* C19: with patience >= 1 and losses from a finite set, the training loop
\* is left and the test phase is reached (runs that the model cuts at its
\* bound on epochs are not counted against this).
C19_TrainingTerminates ==
    <>(tr_patience = 0 \/ trpc = "test" \/ EpochCap)

----------------------------------------------------------------------------
(* csv_to_matrix_task2.  Times are whole ticks; dur and step are given in  *)
(* ticks, so that dur/step and x/step are exact rationals.                 *)

CsvDur == 6            \* dur
CsvSteps == {1, 2}     \* step
MaxCsvRows == 3        \* rows in the annotation file
CsvOverlaps == {1, 2}  \* max_overlap

\* Start/End pairs of a row: the whole file, an event inside it, an event
\* of no length, and one that lasts to the end of the file
CsvTimes == { <<0, CsvDur>>, <<1, 3>>, <<3, 3>>, <<3, CsvDur>> }

CsvTables ==
    UNION { { [k \in 1..n |-> CsvRow(k, ts[k], cs[k])] :
                ts \in [1..n -> CsvTimes], cs \in [1..n -> 1..num_classes] }
            : n \in 0..MaxCsvRows }

\* line 134: class_dict[s['Class']], the classes numbered from 0
class_id(name) == CHOOSE c \in 0..(num_classes - 1) : classes_[c + 1] = name

\* lines 115, 117: int(dur/step)
tot_steps(dur, step) == dur \div step

\* line 121: round(float(x) / step) * step; Python's round sends a tie to
\* the even neighbour, as np.round does
quantize(x, step) == np_round(Rat(x, step)) * step

\* line 123: int(np.interp(x, (0,dur), (0,num_frames-1))); np.interp keeps
\* x within (0, dur)
get_frame(x, dur, step) ==
    (Min(x, dur) * (tot_steps(dur, step) - 1)) \div dur

\* line 139: int(np.sum(cl[f][class_id]))
count_present(cl, f, c) ==
    Cardinality({p \in DOMAIN cl[f][c] : cl[f][c][p] = 1})

\* lines 138-144 for the frames f..end_frame of row s: the arrays after the
\* loop, or after the frame whose write fell outside the slots of the class
RECURSIVE write_frames(_, _, _, _, _)
write_frames(cl, loc, f, end_frame, s) ==
    IF f > end_frame THEN [cl |-> cl, loc |-> loc, err |-> "none"]
    ELSE LET c == class_id(s.Class)
             at == count_present(cl, f, c)
         IN  IF at \notin DOMAIN cl[f][c]
             THEN [cl |-> cl, loc |-> loc, err |-> "IndexError"]
             ELSE write_frames(
                      [cl EXCEPT ![f][c][at] = 1],
                      [loc EXCEPT ![f][c][at] = <<s.X, s.Y, s.Z>>],
                      f + 1, end_frame, s)

\* lines 148-155: both arrays flattened frame by frame, the locations
\* divided by max_loc_value, the presence values first
csv_stack(cl, loc) ==
    [f \in DOMAIN cl |->
        LET n == num_classes * csv_max_overlap
        IN  [k \in 0..(4 * n - 1) |->
                IF k < n
                THEN Rat(cl[f][k \div csv_max_overlap][k % csv_max_overlap], 1)
                ELSE LET q == k - n
                     IN  Rat(loc[f][q \div (3 * csv_max_overlap)]
                                [(q \div 3) % csv_max_overlap][(q % 3) + 1],
                             MaxLocValue)]]

\* lines 115-125
CsvInit ==
    /\ csv_dur = CsvDur
    /\ csv_step \in CsvSteps
    /\ csv_max_overlap \in CsvOverlaps
    /\ csv_df \in CsvTables
    /\ csv_index = 0
    /\ csv_cl = [f \in 0..(tot_steps(csv_dur, csv_step) - 1) |->
                    [c \in 0..(num_classes - 1) |->
                        [p \in 0..(csv_max_overlap - 1) |-> 0]]]
    /\ csv_loc = [f \in 0..(tot_steps(csv_dur, csv_step) - 1) |->
                    [c \in 0..(num_classes - 1) |->
                        [p \in 0..(csv_max_overlap - 1) |-> <<0, 0, 0>>]]]
    /\ csv_stacked = None
    /\ csv_err = "none"
    /\ cpc = "rows"
    /\ ArrayIdle /\ SpectrumIdle /\ TrainIdle /\ PrepIdle

\* lines 127-144: one row of the file
CsvRowStep ==
    /\ cpc = "rows"
    /\ csv_index < Len(csv_df)
    /\ LET s == csv_df[csv_index + 1]
           start == quantize(s.Start, csv_step)
           end == quantize(s.End, csv_step)
           start_frame == get_frame(start, csv_dur, csv_step)
           end_frame == get_frame(end, csv_dur, csv_step)
           res == write_frames(csv_cl, csv_loc, start_frame, end_frame, s)
       IN  /\ csv_cl' = res.cl
           /\ csv_loc' = res.loc
           /\ csv_err' = res.err
           /\ IF res.err = "none"
              THEN csv_index' = csv_index + 1 /\ cpc' = cpc
              ELSE csv_index' = csv_index /\ cpc' = "error"
    /\ UNCHANGED <<csv_dur, csv_step, csv_max_overlap, csv_df, csv_stacked>>
    /\ UNCHANGED <<array_vars, spectrum_vars, train_vars, prep_vars>>

\* lines 147-157
CsvReturn ==
    /\ cpc = "rows"
    /\ csv_index = Len(csv_df)
    /\ csv_stacked' = Some(csv_stack(csv_cl, csv_loc))
    /\ cpc' = "done"
    /\ UNCHANGED <<csv_dur, csv_step, csv_max_overlap, csv_df, csv_index,
                   csv_cl, csv_loc, csv_err>>
    /\ UNCHANGED <<array_vars, spectrum_vars, train_vars, prep_vars>>

CsvNext == CsvRowStep \/ CsvReturn

SpecCsv == CsvInit /\ [][CsvNext]_vars

\* frame f carries the mark of row k of the file: a presence value 1 of its
\* class with the coordinates of the row beside it
MarkedBy(k, f) ==
    LET s == csv_df[k]
        c == class_id(s.Class)
    IN  \E p \in DOMAIN csv_cl[f][c] :
            /\ csv_cl[f][c][p] = 1
            /\ csv_loc[f][c][p] = <<s.X, s.Y, s.Z>>

\* C20: for every row consumed, with quantized start s and end e, the first
\* frame that carries its mark is frame s/step, the frame whose window
\* [f*step, (f+1)*step) contains s; no earlier frame carries it; and every
\* frame from there to the frame that contains e carries it.
C20_FirstFrameContainsStart ==
    cpc \in {"rows", "done"} =>
        \A k \in 1..csv_index :
            LET s == quantize(csv_df[k].Start, csv_step)
                e == quantize(csv_df[k].End, csv_step)
                nf == tot_steps(csv_dur, csv_step)
                first == s \div csv_step
                last == Min(e \div csv_step, nf - 1)
            IN  first < nf =>
                    /\ MarkedBy(k, first)
                    /\ \A f \in 0..(first - 1) : ~MarkedBy(k, f)
                    /\ \A f \in first..last : MarkedBy(k, f)

\* row k of the file covers frame f: the frame lies between the frame whose
\* window contains the quantized start of the row and the one whose window
\* contains its quantized end
Covers(k, f) ==
    LET s == quantize(csv_df[k].Start, csv_step)
        e == quantize(csv_df[k].End, csv_step)
    IN  /\ s \div csv_step <= f
        /\ f <= Min(e \div csv_step, tot_steps(csv_dur, csv_step) - 1)

\* the rows of class c among the first n rows that cover frame f, in file
\* order
Covering(f, c, n) ==
    SelectSeq([k \in 1..n |-> k],
              LAMBDA k : class_id(csv_df[k].Class) = c /\ Covers(k, f))

\* the coordinates of row k
Coordinates(k) == <<csv_df[k].X, csv_df[k].Y, csv_df[k].Z>>

\* C21: after any number of rows, in every frame and for every class the
\* presence slots holding 1 are exactly slots 0..k-1, k being the number of
\* rows of the class that cover the frame, and location slot i holds the
\* coordinates of the i-th of them in file order (divided by max_loc_value
\* in the matrix returned); a row that would bring k above max_overlap ends
\* the call with an index error, and the slots filled before keep their
\* values.
C21_SlotsInFileOrder ==
    /\ cpc \in {"rows", "done"} =>
          \A f \in DOMAIN csv_cl : \A c \in DOMAIN csv_cl[f] :
              LET ev == Covering(f, c, csv_index)
              IN  /\ {p \in DOMAIN csv_cl[f][c] : csv_cl[f][c][p] = 1}
                         = 0..(Len(ev) - 1)
                  /\ \A i \in 0..(Len(ev) - 1) :
                        /\ csv_loc[f][c][i] = Coordinates(ev[i + 1])
                        /\ cpc = "done" =>
                              \A x \in 0..2 :
                                  csv_stacked[1][f][
                                      num_classes * csv_max_overlap
                                      + (c * csv_max_overlap + i) * 3 + x]
                                  = Rat(Coordinates(ev[i + 1])[x + 1],
                                        MaxLocValue)
    /\ cpc = "error" =>
          /\ csv_err = "IndexError"
          /\ \E f \in DOMAIN csv_cl : \E c \in DOMAIN csv_cl[f] :
                Len(Covering(f, c, csv_index + 1)) > csv_max_overlap
          /\ \A f \in DOMAIN csv_cl : \A c \in DOMAIN csv_cl[f] :
                LET ev == Covering(f, c, csv_index)
                IN  \A i \in 0..(Len(ev) - 1) :
                        /\ csv_cl[f][c][i] = 1
                        /\ csv_loc[f][c][i] = Coordinates(ev[i + 1])

----------------------------------------------------------------------------
(* preprocessing_task1 (src/preprocessing.py).  A file of the dataset is a *)
(* record of the sound it belongs to, the mic that recorded it, its folder *)
(* and its length; what librosa.load returns for it is a matrix of         *)
(* non-zero numbers that name the sound, the channel and the sample,       *)
(* positive for mic A and negative for mic B.  The limit on the number of  *)
(* sounds (lines 74-77, which are not valid Python as written) is left     *)
(* out: args.num_data is None.                                             *)

MaxSounds == 2         \* sounds in the dataset folders
MaxSamples == 4        \* samples in a recording
PadSize == 3           \* size of pad: sr_task1*10, the 10 seconds
NumChannels == 4       \* channels of one ambisonics mic
\* args.train_val_split, 0.7
train_val_split == <<7, 10>>

\* the files of sound k
SoundFile(k, mic, folder, n) ==
    [sound |-> k, mic |-> mic, folder |-> folder, samples |-> n]

\* listings of up to MaxSounds sounds, those of the train folder first
\* (line 30), each sound with its mic-A and its mic-B file
PrepListings ==
    UNION { { [i \in 1..(2 * n) |->
                 SoundFile((i + 1) \div 2,
                           IF i % 2 = 1 THEN "A" ELSE "B",
                           IF (i + 1) \div 2 <= nt THEN "train" ELSE "test",
                           ns[(i + 1) \div 2])] :
              nt \in 0..n, ns \in [1..n -> 1..MaxSamples] }
            : n \in 0..MaxSounds }

\* line 48: the files whose name ends in _A
filter_A(files) == SelectSeq(files, LAMBDA f : f.mic = "A")

\* librosa.load(path, sr_task1, mono=False) on a recording of one mic
librosa_load(f) ==
    [ch \in 0..(NumChannels - 1) |->
        [t \in 0..(f.samples - 1) |->
            (IF f.mic = "A" THEN 1 ELSE -1)
                * (f.sound * 100 + ch * 10 + t + 1)]]

\* lines 60-61: the mono target of the sound, reshaped to (1, samples)
load_target(f) ==
    [r \in {0} |-> [t \in 0..(f.samples - 1) |-> f.sound * 100 + 50 + t]]

\* line 56: sound_path.replace('A', 'B')
B_path(f) == [f EXCEPT !.mic = "B"]

\* pad of lines 16-24
prep_pad(x, size) ==
    IF Width(x) > size THEN slice(x, 0, size) ELSE pad(x, size)

\* np.vstack((a, b))
vstack(a, b) ==
    [r \in 0..(len(a) + len(b) - 1) |->
        IF r < len(a) THEN a[r] ELSE b[r - len(a)]]

\* lines 52-59: the predictor of the sound at sound_path
predictor_of(sound_path, num_mics) ==
    LET samples == prep_pad(librosa_load(sound_path), PadSize)
        B_sound_path == B_path(sound_path)
        samples_B == prep_pad(librosa_load(sound_path), PadSize)
    IN  IF num_mics = 2 THEN vstack(samples, samples_B) ELSE samples

PrepInit ==
    /\ prep_num_mics \in {1, 2}
    /\ prep_files \in PrepListings
    /\ prep_index = 0
    /\ predictors_train = <<>>
    /\ predictors_test = <<>>
    /\ target_train = <<>>
    /\ target_test = <<>>
    /\ prep_saved = None
    /\ prepc = "sounds"
    /\ ArrayIdle /\ SpectrumIdle /\ TrainIdle /\ CsvIdle

\* lines 49-72: one mic-A file of the listing
PrepSound ==
    /\ prepc = "sounds"
    /\ prep_index < Len(filter_A(prep_files))
    /\ LET sound_path == filter_A(prep_files)[prep_index + 1]
           samples == predictor_of(sound_path, prep_num_mics)
           samples_target == prep_pad(load_target(sound_path), PadSize)
       IN  IF sound_path.folder = "test"
           THEN /\ predictors_test' = Append(predictors_test, samples)
                /\ target_test' = Append(target_test, samples_target)
                /\ UNCHANGED <<predictors_train, target_train>>
           ELSE /\ predictors_train' = Append(predictors_train, samples)
                /\ target_train' = Append(target_train, samples_target)
                /\ UNCHANGED <<predictors_test, target_test>>
    /\ prep_index' = prep_index + 1
    /\ UNCHANGED <<prep_num_mics, prep_files, prep_saved, prepc>>
    /\ UNCHANGED <<array_vars, spectrum_vars, train_vars, csv_vars>>

\* lines 79-102: the split of the train set and the six lists written
PrepSave ==
    /\ prepc = "sounds"
    /\ prep_index = Len(filter_A(prep_files))
    /\ LET split_point ==
               (Len(predictors_train) * train_val_split[1])
                   \div train_val_split[2]
           n == Len(predictors_train)
       IN  prep_saved' =
               Some([predictors_train |->
                         SubSeq(predictors_train, 1, split_point),
                     predictors_validation |->
                         SubSeq(predictors_train, split_point + 1, n),
                     predictors_test |-> predictors_test,
                     target_train |-> SubSeq(target_train, 1, split_point),
                     target_validation |->
                         SubSeq(target_train, split_point + 1, n),
                     target_test |-> target_test])
    /\ prepc' = "done"
    /\ UNCHANGED <<prep_num_mics, prep_files, prep_index, predictors_train,
                   predictors_test, target_train, target_test>>
    /\ UNCHANGED <<array_vars, spectrum_vars, train_vars, csv_vars>>

PrepNext == PrepSound \/ PrepSave

SpecPrep == PrepInit /\ [][PrepNext]_vars

\* the predictor built from the i-th mic-A file of the listing: the lists
\* of each folder grow in listing order
BuiltFrom(i) ==
    LET data == filter_A(prep_files)
        same == Cardinality({k \in 1..i : data[k].folder = data[i].folder})
    IN  IF data[i].folder = "test" THEN predictors_test[same]
        ELSE predictors_train[same]

\* sample t of channel ch of recording f after the cut or the padding to
\* the 10 seconds
TenSeconds(f, ch, t) ==
    IF t < f.samples THEN librosa_load(f)[ch][t] ELSE 0

\* C22: with num_mics = 2 every predictor has 8 channels of the 10-second
\* length, the first 4 being the mic-A recording of the sound and the last
\* 4 the mic-B recording of the same sound, each cut or zero-padded to that
\* length.
C22_EightChannelsAThenB ==
    prep_num_mics = 2 =>
        \A i \in 1..prep_index :
            LET A == filter_A(prep_files)[i]
                B == B_path(A)
                x == BuiltFrom(i)
            IN  /\ DOMAIN x = 0..(2 * NumChannels - 1)
                /\ \A ch \in 0..(NumChannels - 1) :
                      /\ DOMAIN x[ch] = 0..(PadSize - 1)
                      /\ DOMAIN x[NumChannels + ch] = 0..(PadSize - 1)
                      /\ \A t \in 0..(PadSize - 1) :
                            /\ x[ch][t] = TenSeconds(A, ch, t)
                            /\ x[NumChannels + ch][t] = TenSeconds(B, ch, t)

====
